---- MODULE Spec2Model ----
(***************************************************************************)
(* A model of the dragon-fjord calendar puzzle solver: the Array2D grid,   *)
(* the PieceModel orientation enumerator, the BoardModel validity checks   *)
(* and the SolverSingleThreaded depth-first search driver.                 *)
(***************************************************************************)
EXTENDS Integers, Sequences, FiniteSets, TLC

VARIABLES
    \* SolverSingleThreaded (solver.rs) and the locals of find_solution_set
    day, month, pieces, board_layout, recursive_history, solution_set,
    solver_history, start_index, index, board_position, has_broken_out, pc,
    \* the number of steps find_solution_set has taken
    steps,
    \* an Array2D under a sequence of rotate90 calls
    grid, grid0, rot_k, rot_n,
    \* one call of BoardModel::is_piece_valid
    v_layout, v_piece, v_pos, v_result,
    \* calls of remove_duplicates on a solution list
    dd_input, dd_prev, dd_calls,
    \* flip, transpose, get and add called on the grid
    a_ops, a_arg, a_out,
    \* one call of get_calendar_position
    c_args, c_pos,
    \* a board layout probed by is_board_complete and next_board_position
    b_layout, b_sets, b_out,
    \* a PieceModel under a sequence of its operations
    p_piece, p_n, p_pure, p_last,
    \* the grids change_orientation has presented of a new piece
    p_seen,
    \* a RecursiveHistory under add_memento and get_memento, beside the grid
    \* the mementos are made of
    h_history, h_board, h_out, h_log, h_ret, h_before, h_last

solverVars == <<day, month, pieces, board_layout, recursive_history,
                solver_history, start_index, index, board_position,
                has_broken_out, pc, steps>>
gridVars == <<grid, grid0, rot_k, rot_n>>
validVars == <<v_layout, v_piece, v_pos, v_result>>
dedupVars == <<dd_input, dd_prev, dd_calls>>
arrayVars == <<a_ops, a_arg, a_out>>
calendarVars == <<c_args, c_pos>>
boardVars == <<b_layout, b_sets, b_out>>
pieceVars == <<p_piece, p_n, p_pure, p_last, p_seen>>
historyVars == <<h_history, h_board, h_out, h_log, h_ret, h_before, h_last>>
unitVars == <<arrayVars, calendarVars, boardVars, pieceVars,
                   historyVars>>
vars == <<solverVars, solution_set, gridVars, validVars, dedupVars, unitVars>>

----------------------------------------------------------------------------
(* Bounds of the model *)

\* flip and transpose are applied to a grid at most MaxOps times in a row
MaxOps == 2
\* get_calendar_position is called with entries 1..MaxEntry, start rows
\* 0..MaxStartRow and divisors 1..MaxDivisor
MaxEntry == 31
MaxStartRow == 2
MaxDivisor == 7
\* a new piece is given up to MaxOrientationCalls change_orientation calls
MaxOrientationCalls == 10
\* a RecursiveHistory is given up to MaxMementos mementos in all
MaxMementos == 2
\* rotate90 is called with k in -MaxK..MaxK
MaxK == 6
\* test grids have 1..MaxGridRows rows and 1..MaxGridCols columns
MaxGridRows == 3
MaxGridCols == 4
\* remove_duplicates is applied to lists of at most MaxSolutions solutions
MaxSolutions == 3
\* find_solution_set is followed for MaxSolverSteps steps and one more
MaxSolverSteps == 160

----------------------------------------------------------------------------
(* utils/array_2d.rs : Array2D                                             *)
(* A grid is [rows, cols, data]; data is the row-major Vec, data[i + 1]    *)
(* holding the element of 0-based index i.  A panic of an operation is the *)
(* value Panic(code), which has no rows.                                   *)

Array2D(r, c, d) == [rows |-> r, cols |-> c, data |-> d]

Panic(code) == [rows |-> 0, cols |-> 0, data |-> <<code>>]
\* slice index out of range / arithmetic overflow on usize
IndexPanic == Panic(0)
\* "Something went wrong when trying to rotate 2D array."
RotatePanic == Panic(1)
\* "Array dimensions must be the same for arrays to be added element wise"
ShapePanic == Panic(2)
\* "Attempted to place a piece on the board at a position that would cause ..."
PlacePanic == Panic(3)

IsPanic(g) == g.rows = 0

\* Vec::swap(a, b) on 0-based indices
Swap(d, a, b) ==
    [i \in 1..Len(d) |-> IF i = a + 1 THEN d[b + 1]
                         ELSE IF i = b + 1 THEN d[a + 1] ELSE d[i]]

\* the swaps of flip(Axes::X), in loop order: <<first index, second index>>
FlipXSwaps(g) ==
    [n \in 1..((g.cols \div 2) * g.cols) |->
        LET row_index == (n - 1) \div g.cols
            col_index == (n - 1) % g.cols
        IN  <<row_index * g.cols + col_index,
              ((g.rows - 1) - row_index) * g.cols + col_index>>]

RECURSIVE ApplySwaps(_, _, _)
ApplySwaps(d, swaps, n) ==
    IF n > Len(swaps) THEN [ok |-> TRUE, data |-> d]
    ELSE LET a == swaps[n][1]
             b == swaps[n][2]
         IN  IF a < 0 \/ b < 0 \/ a >= Len(d) \/ b >= Len(d)
             THEN [ok |-> FALSE, data |-> d]
             ELSE ApplySwaps(Swap(d, a, b), swaps, n + 1)

\* flip(Axes::X): the row loop runs over 0..cols/2
flipX(g) ==
    IF IsPanic(g) THEN g
    ELSE LET r == ApplySwaps(g.data, FlipXSwaps(g), 1)
         IN  IF r.ok THEN Array2D(g.rows, g.cols, r.data) ELSE IndexPanic

\* flip(Axes::Y): every row slice is reversed
flipY(g) ==
    IF IsPanic(g) THEN g
    ELSE Array2D(g.rows, g.cols,
            [i \in 1..Len(g.data) |->
                LET row_index == (i - 1) \div g.cols
                    col_index == (i - 1) % g.cols
                IN  g.data[row_index * g.cols + (g.cols - 1 - col_index) + 1]])

\* the inner loop of transpose: follows one cycle from cycle_start
RECURSIVE TransposeCycle(_, _, _, _, _)
TransposeCycle(st, cols, mn, cycle_start, old_index) ==
    LET new_index == IF old_index = mn - 1 THEN mn - 1
                     ELSE (cols * old_index) % (mn - 1)
        seen == [st.visited EXCEPT ![old_index + 1] = TRUE]
    IN  IF new_index = cycle_start
        THEN [data |-> st.data, visited |-> seen]
        ELSE TransposeCycle([data |-> Swap(st.data, old_index, new_index),
                             visited |-> seen],
                            cols, mn, cycle_start, new_index)

\* the outer loop of transpose: while cycle_start != mn
RECURSIVE TransposeLoop(_, _, _, _)
TransposeLoop(st, cols, mn, cycle_start) ==
    IF cycle_start = mn THEN st
    ELSE IF ~st.visited[cycle_start + 1]
         THEN TransposeLoop(TransposeCycle(st, cols, mn, cycle_start, cycle_start),
                            cols, mn, cycle_start + 1)
         ELSE TransposeLoop(st, cols, mn, cycle_start + 1)

\* a transpose that forgets to swap rows and cols of the shape
transpose_keeps_shape(g) ==
    IF IsPanic(g) THEN g
    ELSE LET mn == g.rows * g.cols
             st == TransposeLoop([data |-> g.data,
                                  visited |-> [i \in 1..mn |-> FALSE]],
                                 g.cols, mn, 0)
         IN  Array2D(g.rows, g.cols, st.data)

transpose(g) ==
    IF IsPanic(g) THEN g
    ELSE LET mn == g.rows * g.cols
             st == TransposeLoop([data |-> g.data,
                                  visited |-> [i \in 1..mn |-> FALSE]],
                                 g.cols, mn, 0)
         IN  Array2D(g.cols, g.rows, st.data)

\* Rust's % on isize truncates towards zero
RustRem(k, n) == IF k >= 0 THEN k % n ELSE 0 - ((0 - k) % n)

\* a rotate90 whose first arm forgets the negative alias -3
rotate90_missing_alias(g, k) ==
    LET kk == RustRem(k, 4)
    IN  IF IsPanic(g) THEN g
        ELSE IF kk = 0 THEN g
        ELSE IF kk = 1 THEN transpose(flipY(g))
        ELSE IF kk = 2 \/ kk = -2 THEN flipY(flipX(g))
        ELSE IF kk = 3 \/ kk = -1 THEN flipY(transpose(g))
        ELSE RotatePanic

rotate90(g, k) ==
    LET kk == RustRem(k, 4)
    IN  IF IsPanic(g) THEN g
        ELSE IF kk = 0 THEN g
        ELSE IF kk = 1 \/ kk = -3 THEN transpose(flipY(g))
        ELSE IF kk = 2 \/ kk = -2 THEN flipY(flipX(g))
        ELSE IF kk = 3 \/ kk = -1 THEN flipY(transpose(g))
        ELSE RotatePanic

\* an add without the shape check: zip stops at the shorter Vec
add_truncating(a, b) ==
    IF IsPanic(a) THEN a
    ELSE IF IsPanic(b) THEN b
    ELSE LET n == IF Len(a.data) < Len(b.data) THEN Len(a.data) ELSE Len(b.data)
         IN  Array2D(a.rows, a.cols, [i \in 1..n |-> a.data[i] + b.data[i]])

\* impl ops::Add for Array2D
add(a, b) ==
    IF IsPanic(a) THEN a
    ELSE IF IsPanic(b) THEN b
    ELSE IF a.rows # b.rows \/ a.cols # b.cols THEN ShapePanic
    ELSE Array2D(a.rows, a.cols, [i \in 1..Len(a.data) |-> a.data[i] + b.data[i]])

\* Array2D::get: data[cols * row + col]; GetInBounds is the Vec's bound check
GetInBounds(g, row, col) == g.cols * row + col < Len(g.data)
get(g, row, col) == g.data[g.cols * row + col + 1]

\* set((row, col), value), with the bound contract of get
set(g, row, col, value) ==
    IF IsPanic(g) THEN g
    ELSE IF row >= g.rows \/ col >= g.cols THEN IndexPanic
    ELSE Array2D(g.rows, g.cols, [g.data EXCEPT ![g.cols * row + col + 1] = value])

\* Vec::contains on the data
Contains(g, value) == \E i \in 1..Len(g.data) : g.data[i] = value

----------------------------------------------------------------------------
(* puzzle/piece.rs : PieceModel                                            *)
(* board_position is an Option: <<>> is None, << <<row, col>> >> is Some.  *)

PieceModel(name, initial_orientation, max_rotations, is_flippable) ==
    [name |-> name,
     initial_orientation |-> initial_orientation,
     current_orientation |-> initial_orientation,
     board_position |-> <<>>,
     max_rotations |-> max_rotations,
     is_flippable |-> is_flippable,
     rotation_count |-> 0,
     translation_count |-> 0,
     has_flipped |-> FALSE,
     orientation_exhausted |-> FALSE,
     translation_exhausted |-> FALSE,
     is_used |-> FALSE]

create_piece_models ==
    << PieceModel("2x3 No Hole",
                  Array2D(2, 3, <<1, 1, 1,
                                  1, 1, 1>>), 2, FALSE),
       PieceModel("2x3 Middle Hole",
                  Array2D(2, 3, <<1, 0, 1,
                                  1, 1, 1>>), 3, FALSE),
       PieceModel("2x3 End Hole",
                  Array2D(2, 3, <<1, 1, 0,
                                  1, 1, 1>>), 3, TRUE),
       PieceModel("2x4 Zig Zag",
                  Array2D(2, 4, <<0, 0, 1, 1,
                                  1, 1, 1, 0>>), 3, TRUE),
       PieceModel("2x4 Tee.",
                  Array2D(2, 4, <<0, 0, 1, 0,
                                  1, 1, 1, 1>>), 4, TRUE),
       PieceModel("2x4 L",
                  Array2D(2, 4, <<0, 0, 0, 1,
                                  1, 1, 1, 1>>), 4, TRUE),
       PieceModel("3x3 Zig Zag",
                  Array2D(3, 3, <<1, 0, 0,
                                  1, 1, 1,
                                  0, 0, 1>>), 2, TRUE),
       PieceModel("3x3 L",
                  Array2D(3, 3, <<1, 0, 0,
                                  1, 0, 0,
                                  1, 1, 1>>), 4, FALSE) >>

rotate(p) ==
    [p EXCEPT !.current_orientation = rotate90(p.current_orientation, 1),
              !.rotation_count = p.rotation_count + 1]

\* a flip that does not start the rotation count over
flip_keeps_count(p) ==
    [p EXCEPT !.current_orientation = flipY(p.current_orientation),
              !.has_flipped = TRUE]

flip(p) ==
    [p EXCEPT !.current_orientation = flipY(p.current_orientation),
              !.has_flipped = TRUE,
              !.rotation_count = 0]

reset(p) ==
    [p EXCEPT !.current_orientation = p.initial_orientation,
              !.rotation_count = 0,
              !.translation_count = 0,
              !.has_flipped = FALSE,
              !.orientation_exhausted = FALSE,
              !.translation_exhausted = FALSE]

\* a change_orientation that starts the rotations over instead of giving up
change_orientation_never_exhausted(p) ==
    IF p.rotation_count = p.max_rotations
    THEN IF p.is_flippable /\ ~p.has_flipped
         THEN flip(p)
         ELSE [p EXCEPT !.rotation_count = 0]
    ELSE rotate(p)

\* a change_orientation that rotates once more before it flips or gives up
change_orientation_one_more(p) ==
    IF p.rotation_count = p.max_rotations + 1
    THEN IF p.is_flippable /\ ~p.has_flipped
         THEN flip(p)
         ELSE [p EXCEPT !.orientation_exhausted = TRUE]
    ELSE rotate(p)

\* a change_orientation that never flips
change_orientation_no_flip(p) ==
    IF p.rotation_count = p.max_rotations
    THEN [p EXCEPT !.orientation_exhausted = TRUE]
    ELSE rotate(p)

change_orientation(p) ==
    IF p.rotation_count = p.max_rotations
    THEN IF p.is_flippable /\ ~p.has_flipped
         THEN flip(p)
         ELSE [p EXCEPT !.orientation_exhausted = TRUE]
    ELSE rotate(p)

\* a translate without the branch that stops at a 1
translate_never_stops(p) ==
    [p EXCEPT !.translation_count = p.translation_count + 1]

\* translate reads get(0, translation_count), which panics out of the Vec
translate_panics(p) == ~GetInBounds(p.current_orientation, 0, p.translation_count)

translate(p) ==
    IF get(p.current_orientation, 0, p.translation_count) = 1
    THEN [p EXCEPT !.translation_exhausted = TRUE]
    ELSE [p EXCEPT !.translation_count = p.translation_count + 1]

next_unique_orientation_panics(p) == ~p.translation_exhausted /\ translate_panics(p)

\* a next_unique_orientation that keeps the translation of the orientation
\* before
next_unique_orientation_keeps_translation(p) ==
    IF p.translation_exhausted
    THEN change_orientation(p)
    ELSE translate(p)

next_unique_orientation(p) ==
    IF p.translation_exhausted
    THEN [change_orientation(p) EXCEPT !.translation_exhausted = FALSE,
                                      !.translation_count = 0]
    ELSE translate(p)

set_used(p, is_used) == [p EXCEPT !.is_used = is_used]

is_used(p) == p.is_used

is_exhausted(p) == p.orientation_exhausted

set_board_position(p, pos) == [p EXCEPT !.board_position = <<pos>>]

\* get_piece_position unwraps board_position: it panics on None
get_piece_position_panics(p) == p.board_position = <<>>

get_piece_position(p) ==
    [name |-> p.name,
     board_position |-> p.board_position[1],
     orientation |-> p.current_orientation]

----------------------------------------------------------------------------
(* puzzle/board.rs : BoardModel                                            *)

create_empty_calendar ==
    Array2D(7, 7, <<0, 0, 0, 0, 0, 0, 1,
                    0, 0, 0, 0, 0, 0, 1,
                    0, 0, 0, 0, 0, 0, 0,
                    0, 0, 0, 0, 0, 0, 0,
                    0, 0, 0, 0, 0, 0, 0,
                    0, 0, 0, 0, 0, 0, 0,
                    0, 0, 0, 1, 1, 1, 1>>)

\* a get_calendar_position without the branch for a remainder of 0
get_calendar_position_no_wrap(calendar_entry, start_row, end_col, divisor) ==
    LET quotient == calendar_entry \div divisor
        remainder == calendar_entry % divisor
    IN  <<start_row + quotient, remainder - 1>>

get_calendar_position(calendar_entry, start_row, end_col, divisor) ==
    LET quotient == calendar_entry \div divisor
        remainder == calendar_entry % divisor
    IN  IF remainder = 0
        THEN <<start_row + quotient - 1, end_col>>
        ELSE <<start_row + quotient, remainder - 1>>

initialise_calendar_layout(d, m, empty_layout) ==
    LET dpos == get_calendar_position(d, 2, 6, 7)
        mpos == get_calendar_position(m, 0, 5, 6)
    IN  set(set(empty_layout, dpos[1], dpos[2], 1), mpos[1], mpos[2], 1)

\* BoardModel::new
BoardModel(d, m) == initialise_calendar_layout(d, m, create_empty_calendar)

\* "Unable to find an empty board position."
NoPosition == <<-1, -1>>

\* a next_board_position that scans the data from its end
next_board_position_from_end(layout) ==
    IF ~Contains(layout, 0) THEN NoPosition
    ELSE LET i == CHOOSE j \in 1..Len(layout.data) :
                      /\ layout.data[j] = 0
                      /\ \A h \in (j + 1)..Len(layout.data) : layout.data[h] # 0
         IN  <<(i - 1) \div layout.cols, (i - 1) % layout.cols>>

next_board_position(layout) ==
    IF ~Contains(layout, 0) THEN NoPosition
    ELSE LET i == CHOOSE j \in 1..Len(layout.data) :
                      /\ layout.data[j] = 0
                      /\ \A h \in 1..(j - 1) : layout.data[h] # 0
         IN  <<(i - 1) \div layout.cols, (i - 1) % layout.cols>>

is_board_complete(layout) == ~Contains(layout, 0)

place_piece_on_board(pos, p) ==
    LET row == pos[1]
        col == pos[2]
        o == p.current_orientation
    IN  IF row + o.rows - 1 > 6 \/ col + o.cols - 1 > 6
        THEN PlacePanic
        ELSE Array2D(7, 7,
                [i \in 1..49 |->
                    LET r == (i - 1) \div 7
                        c == (i - 1) % 7
                    IN  IF /\ r >= row /\ r < row + o.rows
                           /\ c >= col /\ c < col + o.cols
                        THEN get(o, r - row, c - col)
                        ELSE 0])

\* a hole check that reports no hole
is_unreachable_holes_none(layout) == FALSE

is_unreachable_holes(layout) ==
    IF is_board_complete(layout) THEN FALSE
    ELSE next_board_position(layout) # NoPosition

\* an is_piece_valid whose bound check forgets the right edge
is_piece_valid_no_col_check(layout, pos, p) ==
    LET row == pos[1]
        col == pos[2]
        o == p.current_orientation
        new_board_layout == add(layout, place_piece_on_board(pos, p))
    IN  IF p.translation_count > col THEN "false"
        ELSE IF row + o.rows - 1 > layout.rows - 1 THEN "false"
        ELSE IF IsPanic(new_board_layout) THEN "panic"
        ELSE IF Contains(new_board_layout, 2) THEN "false"
        ELSE IF is_unreachable_holes(new_board_layout) THEN "false"
        ELSE "true"

\* an is_piece_valid without the overlap check
is_piece_valid_no_overlap_check(layout, pos, p) ==
    LET row == pos[1]
        col == pos[2]
        o == p.current_orientation
        new_board_layout == add(layout, place_piece_on_board(pos, p))
    IN  IF p.translation_count > col THEN "false"
        ELSE IF row + o.rows - 1 > layout.rows - 1 \/ col + o.cols > layout.cols
             THEN "false"
        ELSE IF IsPanic(new_board_layout) THEN "panic"
        ELSE IF is_unreachable_holes(new_board_layout) THEN "false"
        ELSE "true"

\* an is_piece_valid that checks the bounds and nothing else
is_piece_valid_only_bounds(layout, pos, p) ==
    LET row == pos[1]
        col == pos[2]
        o == p.current_orientation
    IN  IF p.translation_count > col THEN "false"
        ELSE IF row + o.rows - 1 > layout.rows - 1 \/ col + o.cols > layout.cols
             THEN "false"
        ELSE "true"

\* the result is "true" or "false", or "panic" when the call does not return
is_piece_valid(layout, pos, p) ==
    LET row == pos[1]
        col == pos[2]
        o == p.current_orientation
        new_board_layout == add(layout, place_piece_on_board(pos, p))
    IN  IF p.translation_count > col THEN "false"
        ELSE IF row + o.rows - 1 > layout.rows - 1 \/ col + o.cols > layout.cols
             THEN "false"
        ELSE IF IsPanic(new_board_layout) THEN "panic"
        ELSE IF Contains(new_board_layout, 2) THEN "false"
        ELSE IF is_unreachable_holes(new_board_layout) THEN "false"
        ELSE "true"

\* stamps the piece at its recorded position by elementwise add
add_piece_to_board(layout, p) ==
    add(layout, place_piece_on_board(p.board_position[1], p))

----------------------------------------------------------------------------
(* utils/memento.rs : Memento, RecursiveHistory                            *)

Memento(backup) == [backup |-> backup]
get_state(memento) == memento.backup
add_memento(history, memento) == Append(history, memento)
\* a get_memento that takes the oldest memento of the history
get_memento_oldest(history) == <<Tail(history), Head(history)>>

\* get_memento pops: <<the history left, the memento returned>>
get_memento(history) == <<SubSeq(history, 1, Len(history) - 1), history[Len(history)]>>
generate_memento(layout) == Memento(layout)
restore_from_memento(memento) == get_state(memento)

----------------------------------------------------------------------------
(* puzzle/solver.rs : SolverSingleThreaded                                 *)
(* pieces is the array of 8 PieceModel, pieces[i + 1] the one of catalogue *)
(* index i.  pc is the position in find_solution_set:                      *)
(*   "loop"  top of the outer loop          "scan"  head of 'piece_loop    *)
(*   "try"   head of the while loop         "check" after 'piece_loop      *)
(*   "done"  find_solution_set returned     "panic" the thread panicked    *)

Days == 1..31
Months == 1..12

GridIdle ==
    /\ grid = Array2D(1, 1, <<0>>) /\ grid0 = Array2D(1, 1, <<0>>)
    /\ rot_k = 0 /\ rot_n = 0
ValidIdle ==
    /\ v_layout = create_empty_calendar /\ v_piece = create_piece_models[1]
    /\ v_pos = <<0, 0>> /\ v_result = "none"
DedupIdle == dd_input = <<>> /\ dd_prev = <<>> /\ dd_calls = 0
\* no get or add call has returned
NoOut == [op |-> "none", panicked |-> FALSE, value |-> 0,
          sum |-> Array2D(1, 1, <<0>>)]
ArrayIdle == a_ops = <<>> /\ a_arg = <<>> /\ a_out = NoOut
CalendarIdle == c_args = <<1, 0, 0, 1>> /\ c_pos = <<>>
BoardIdle ==
    /\ b_layout = create_empty_calendar /\ b_sets = 0
    /\ b_out = [probed |-> FALSE, complete |-> FALSE, position |-> <<0, 0>>]
PieceIdle ==
    /\ p_piece = create_piece_models[1] /\ p_n = 0
    /\ p_pure = TRUE /\ p_last = "new" /\ p_seen = <<>>
\* RecursiveHistory::new(); no memento made, none returned
HistoryIdle ==
    /\ h_history = <<>> /\ h_board = Array2D(1, 1, <<0>>) /\ h_out = <<>>
    /\ h_log = <<>> /\ h_ret = 0 /\ h_before = <<>> /\ h_last = "new"
UnitIdle == ArrayIdle /\ CalendarIdle /\ BoardIdle /\ PieceIdle /\ HistoryIdle

\* SolverSingleThreaded::new(day, month) followed by find_solution_set(0)
SolverInit ==
    /\ day \in Days
    /\ month \in Months
    /\ pieces = create_piece_models
    /\ board_layout = BoardModel(day, month)
    /\ solution_set = <<>>
    /\ recursive_history = <<>>
    /\ solver_history = <<>>
    /\ start_index = 0
    /\ index = 0
    /\ board_position = <<0, 0>>
    /\ has_broken_out = FALSE
    /\ pc = "loop"
    /\ steps = 0

Init == SolverInit /\ GridIdle /\ ValidIdle /\ DedupIdle /\ UnitIdle

\* lines 45-53: a pass of the outer loop begins
LoopTop ==
    /\ pc = "loop"
    /\ steps <= MaxSolverSteps
    /\ steps' = steps + 1
    /\ has_broken_out' = FALSE
    /\ LET pos == next_board_position(board_layout)
       IN  IF pos = NoPosition
           THEN /\ pc' = "panic"
                /\ UNCHANGED <<board_position, index>>
           ELSE /\ board_position' = pos
                /\ index' = start_index
                /\ pc' = "scan"
    /\ UNCHANGED <<day, month, pieces, board_layout, recursive_history,
                   solution_set, solver_history, start_index>>
    /\ UNCHANGED <<gridVars, validVars, dedupVars, unitVars>>

\* lines 53-55: the next index of 'piece_loop
ScanPiece ==
    /\ pc = "scan"
    /\ steps <= MaxSolverSteps
    /\ steps' = steps + 1
    /\ IF index >= Len(pieces)
       THEN pc' = "check" /\ UNCHANGED index
       ELSE IF is_used(pieces[index + 1])
            THEN pc' = "scan" /\ index' = index + 1
            ELSE pc' = "try" /\ UNCHANGED index
    /\ UNCHANGED <<day, month, pieces, board_layout, recursive_history,
                   solution_set, solver_history, start_index, board_position,
                   has_broken_out>>
    /\ UNCHANGED <<gridVars, validVars, dedupVars, unitVars>>

\* lines 56-83: one iteration of the while loop, or its exit and the reset
TryOrientation ==
    /\ pc = "try"
    /\ steps <= MaxSolverSteps
    /\ steps' = steps + 1
    /\ LET piece == pieces[index + 1]
       IN  IF is_exhausted(piece)
           THEN /\ pieces' = [pieces EXCEPT ![index + 1] = reset(piece)]
                /\ index' = index + 1
                /\ pc' = "scan"
                /\ UNCHANGED <<board_layout, recursive_history, solver_history,
                               has_broken_out>>
           ELSE LET valid == is_piece_valid(board_layout, board_position, piece)
                IN  IF valid = "true"
                    THEN LET placed == set_board_position(piece, board_position)
                         IN  /\ pieces' = [pieces EXCEPT ![index + 1] = placed]
                             /\ recursive_history' =
                                    add_memento(recursive_history,
                                                generate_memento(board_layout))
                             /\ board_layout' = add_piece_to_board(board_layout, placed)
                             /\ solver_history' = Append(solver_history, index)
                             /\ has_broken_out' = TRUE
                             /\ pc' = "check"
                             /\ UNCHANGED index
                    ELSE IF valid = "panic" \/ next_unique_orientation_panics(piece)
                    THEN /\ pc' = "panic"
                         /\ UNCHANGED <<pieces, board_layout, recursive_history,
                                        solver_history, has_broken_out, index>>
                    ELSE /\ pieces' = [pieces EXCEPT
                                          ![index + 1] = next_unique_orientation(piece)]
                         /\ pc' = "try"
                         /\ UNCHANGED <<board_layout, recursive_history,
                                        solver_history, has_broken_out, index>>
    /\ UNCHANGED <<day, month, solution_set, start_index, board_position>>
    /\ UNCHANGED <<gridVars, validVars, dedupVars, unitVars>>

\* lines 88-118: the completion check and the backtrack
CheckAndBacktrack ==
    /\ pc = "check"
    /\ steps <= MaxSolverSteps
    /\ steps' = steps + 1
    /\ LET complete == is_board_complete(board_layout)
           unplaced == \E i \in 1..Len(pieces) : get_piece_position_panics(pieces[i])
       IN  IF complete /\ unplaced
           THEN /\ pc' = "panic"
                /\ UNCHANGED <<solution_set, pieces, board_layout,
                               recursive_history, solver_history, start_index>>
           ELSE /\ solution_set' =
                       IF complete
                       THEN Append(solution_set,
                                   [i \in 1..Len(pieces) |-> get_piece_position(pieces[i])])
                       ELSE solution_set
                /\ IF has_broken_out
                   THEN /\ pc' = "loop"
                        /\ UNCHANGED <<pieces, board_layout, recursive_history,
                                       solver_history, start_index>>
                   ELSE IF solver_history = <<>>
                   THEN /\ pc' = "done"
                        /\ UNCHANGED <<pieces, board_layout, recursive_history,
                                       solver_history, start_index>>
                   ELSE LET x == solver_history[Len(solver_history)]
                            popped == get_memento(recursive_history)
                            freed == set_used(pieces[x + 1], FALSE)
                        IN  /\ solver_history' =
                                   SubSeq(solver_history, 1, Len(solver_history) - 1)
                            /\ start_index' = x
                            /\ recursive_history' = popped[1]
                            /\ board_layout' = restore_from_memento(popped[2])
                            /\ IF next_unique_orientation_panics(freed)
                               THEN pc' = "panic" /\ pieces' = pieces
                               ELSE /\ pc' = "loop"
                                    /\ pieces' = [pieces EXCEPT
                                          ![x + 1] = next_unique_orientation(freed)]
    /\ UNCHANGED <<day, month, index, board_position, has_broken_out>>
    /\ UNCHANGED <<gridVars, validVars, dedupVars, unitVars>>

Next == LoopTop \/ ScanPiece \/ TryOrientation \/ CheckAndBacktrack

Spec == Init /\ [][Next]_vars

----------------------------------------------------------------------------
(* Array2D::rotate90 applied repeatedly to one grid                        *)

SolverIdle ==
    /\ day = 1 /\ month = 1
    /\ pieces = create_piece_models
    /\ board_layout = create_empty_calendar
    /\ recursive_history = <<>>
    /\ solver_history = <<>>
    /\ start_index = 0 /\ index = 0
    /\ board_position = <<0, 0>>
    /\ has_broken_out = FALSE
    /\ pc = "idle"
    /\ steps = 0

\* the rows x cols grid whose element of index i is i
LabelGrid(r, c) == Array2D(r, c, [i \in 1..(r * c) |-> i - 1])

TestGrids ==
    {LabelGrid(r, c) : r \in 1..MaxGridRows, c \in 1..MaxGridCols}
    \cup {create_piece_models[i].initial_orientation : i \in 1..8}

GridInit ==
    /\ SolverIdle /\ solution_set = <<>> /\ ValidIdle /\ DedupIdle /\ UnitIdle
    /\ grid0 \in TestGrids
    /\ grid = grid0
    /\ rot_k \in (0 - MaxK)..MaxK
    /\ rot_n = 0

\* grid.rotate90(rot_k); a panic ends the sequence of calls
Rotate ==
    /\ rot_n < 4
    /\ ~IsPanic(grid)
    /\ grid' = rotate90(grid, rot_k)
    /\ rot_n' = rot_n + 1
    /\ UNCHANGED <<grid0, rot_k>>
    /\ UNCHANGED <<solverVars, solution_set, validVars, dedupVars, unitVars>>

SpecGrid == GridInit /\ [][Rotate]_vars

----------------------------------------------------------------------------
(* Array2D::flip, transpose, get and add called on one grid.  a_ops is the *)
(* sequence of flip and transpose calls made on grid0 to give grid, a_arg  *)
(* the argument of the get or add call and a_out what that call returned.  *)

ArrayInit ==
    /\ SolverIdle /\ solution_set = <<>> /\ ValidIdle /\ DedupIdle
    /\ CalendarIdle /\ BoardIdle /\ PieceIdle /\ HistoryIdle
    /\ grid0 \in TestGrids
    /\ grid = grid0
    /\ rot_k = 0 /\ rot_n = 0
    /\ ArrayIdle

\* the guard of a mutating call: a panic ends the sequence of calls
MayMutate == Len(a_ops) < MaxOps /\ ~IsPanic(grid) /\ a_out.op = "none"

\* grid.flip(Axes::X)
FlipVertical ==
    /\ MayMutate
    /\ grid' = flipX(grid)
    /\ a_ops' = Append(a_ops, "flipX")
    /\ UNCHANGED <<grid0, rot_k, rot_n, a_arg, a_out>>
    /\ UNCHANGED <<solverVars, solution_set, validVars, dedupVars,
                   calendarVars, boardVars, pieceVars,
                   historyVars>>

\* grid.flip(Axes::Y)
FlipHorizontal ==
    /\ MayMutate
    /\ grid' = flipY(grid)
    /\ a_ops' = Append(a_ops, "flipY")
    /\ UNCHANGED <<grid0, rot_k, rot_n, a_arg, a_out>>
    /\ UNCHANGED <<solverVars, solution_set, validVars, dedupVars,
                   calendarVars, boardVars, pieceVars,
                   historyVars>>

\* grid.transpose()
Transpose ==
    /\ MayMutate
    /\ grid' = transpose(grid)
    /\ a_ops' = Append(a_ops, "transpose")
    /\ UNCHANGED <<grid0, rot_k, rot_n, a_arg, a_out>>
    /\ UNCHANGED <<solverVars, solution_set, validVars, dedupVars,
                   calendarVars, boardVars, pieceVars,
                   historyVars>>

\* what a call of get returns: the element, or a panic of the Vec's check
get_call(g, row, col) ==
    IF GetInBounds(g, row, col)
    THEN [op |-> "get", panicked |-> FALSE, value |-> get(g, row, col),
          sum |-> NoOut.sum]
    ELSE [op |-> "get", panicked |-> TRUE, value |-> 0, sum |-> NoOut.sum]

\* grid.get(row, col), with indices up to one past the largest test grid
Get ==
    /\ a_ops = <<>> /\ a_out.op = "none"
    /\ \E row \in 0..MaxGridRows, col \in 0..MaxGridCols :
          /\ a_arg' = <<row, col>>
          /\ a_out' = get_call(grid, row, col)
    /\ UNCHANGED <<gridVars, a_ops>>
    /\ UNCHANGED <<solverVars, solution_set, validVars, dedupVars,
                   calendarVars, boardVars, pieceVars,
                   historyVars>>

\* grid + other
Add ==
    /\ a_ops = <<>> /\ a_out.op = "none"
    /\ \E other \in TestGrids :
          /\ a_arg' = other
          /\ a_out' = [op |-> "add", panicked |-> IsPanic(add(grid, other)),
                       value |-> 0, sum |-> add(grid, other)]
    /\ UNCHANGED <<gridVars, a_ops>>
    /\ UNCHANGED <<solverVars, solution_set, validVars, dedupVars,
                   calendarVars, boardVars, pieceVars,
                   historyVars>>

NextArray == FlipVertical \/ FlipHorizontal \/ Transpose \/ Get \/ Add

SpecArray == ArrayInit /\ [][NextArray]_vars

----------------------------------------------------------------------------
(* BoardModel::is_piece_valid called on a layout, a position and a piece   *)
(* in any state of its orientation enumeration                             *)

\* the layouts of tests::get_next_board_position and tests::test_complete_board
HalfFullLayout ==
    Array2D(7, 7, <<1, 1, 1, 1, 1, 1, 1,
                    1, 1, 1, 1, 1, 1, 1,
                    1, 1, 1, 1, 1, 1, 1,
                    0, 0, 0, 0, 0, 0, 0,
                    0, 0, 0, 0, 0, 0, 0,
                    0, 0, 0, 0, 0, 0, 0,
                    0, 0, 0, 1, 1, 1, 1>>)
FullLayout == Array2D(7, 7, [i \in 1..49 |-> 1])

\* the layout whose only empty cells are the solid cells of catalogue piece
\* i + 1, in its initial orientation, at pos
HoleLayout(i, pos) ==
    LET stamp == place_piece_on_board(pos, create_piece_models[i + 1])
    IN  Array2D(7, 7, [j \in 1..49 |-> 1 - stamp.data[j]])

TestLayouts ==
    { BoardModel(31, 1), BoardModel(15, 6), HalfFullLayout, FullLayout,
      add_piece_to_board(BoardModel(31, 1),
                         set_board_position(create_piece_models[1], <<0, 1>>)),
      HoleLayout(0, <<2, 2>>), HoleLayout(5, <<3, 1>>) }

Positions == (0..6) \X (0..6)

ValidInit ==
    /\ SolverIdle /\ solution_set = <<>> /\ GridIdle /\ DedupIdle /\ UnitIdle
    /\ v_layout \in TestLayouts
    /\ v_piece \in {create_piece_models[i] : i \in 1..8}
    /\ v_pos = <<0, 0>>
    /\ v_result = "none"

\* the piece moves on in its enumeration
VOrient ==
    /\ ~is_exhausted(v_piece)
    /\ ~next_unique_orientation_panics(v_piece)
    /\ v_piece' = next_unique_orientation(v_piece)
    /\ v_pos' = <<0, 0>>
    /\ v_result' = "none"
    /\ UNCHANGED v_layout
    /\ UNCHANGED <<solverVars, solution_set, gridVars, dedupVars, unitVars>>

\* is_piece_valid(pos, piece) on the layout
VCheck ==
    /\ v_result = "none"
    /\ \E pos \in Positions :
          /\ v_pos' = pos
          /\ v_result' = is_piece_valid(v_layout, pos, v_piece)
    /\ UNCHANGED <<v_layout, v_piece>>
    /\ UNCHANGED <<solverVars, solution_set, gridVars, dedupVars, unitVars>>

SpecValid == ValidInit /\ [][VOrient \/ VCheck]_vars

----------------------------------------------------------------------------
(* SolverSingleThreaded::remove_duplicates on a solution list              *)
(* A recorded entry is a tuple <<name, row, col, orientation>> of numbers, *)
(* a solution a sequence of entries; both are ordered lexicographically.   *)

RECURSIVE LexLess(_, _)
LexLess(a, b) ==
    IF a = <<>> THEN b # <<>>
    ELSE IF b = <<>> THEN FALSE
    ELSE IF a[1] < b[1] THEN TRUE
    ELSE IF b[1] < a[1] THEN FALSE
    ELSE LexLess(Tail(a), Tail(b))

\* the order of Vec<PieceBoardPosition>: entry by entry, a prefix first
RECURSIVE SolutionLess(_, _)
SolutionLess(a, b) ==
    IF a = <<>> THEN b # <<>>
    ELSE IF b = <<>> THEN FALSE
    ELSE IF LexLess(a[1], b[1]) THEN TRUE
    ELSE IF LexLess(b[1], a[1]) THEN FALSE
    ELSE SolutionLess(Tail(a), Tail(b))

\* Vec::sort: stable, by the order of the elements
RECURSIVE InsertSorted(_, _)
InsertSorted(sorted, x) ==
    IF sorted = <<>> THEN <<x>>
    ELSE IF SolutionLess(x, sorted[1]) THEN <<x>> \o sorted
    ELSE <<sorted[1]>> \o InsertSorted(Tail(sorted), x)

RECURSIVE sort(_)
sort(list) ==
    IF list = <<>> THEN <<>>
    ELSE InsertSorted(sort(SubSeq(list, 1, Len(list) - 1)), list[Len(list)])

\* Vec::dedup: removes consecutive repeated elements, keeping the first
RECURSIVE dedup(_)
dedup(list) ==
    IF Len(list) <= 1 THEN list
    ELSE IF list[1] = list[2] THEN dedup(Tail(list))
    ELSE <<list[1]>> \o dedup(Tail(list))

\* a remove_duplicates that forgets to sort
remove_duplicates_no_sort(list) == dedup(list)

remove_duplicates(list) == dedup(sort(list))

TestEntries == { <<0, 0, 0, 0>>, <<0, 0, 1, 0>>, <<0, 1, 0, 1>> }
TestSolutions == { <<a, b>> : a \in TestEntries, b \in TestEntries }
TestLists == UNION { [1..n -> TestSolutions] : n \in 0..MaxSolutions }

DedupInit ==
    /\ SolverIdle /\ GridIdle /\ ValidIdle /\ UnitIdle
    /\ solution_set \in TestLists
    /\ dd_input = solution_set
    /\ dd_prev = solution_set
    /\ dd_calls = 0

RemoveDuplicates ==
    /\ dd_calls < 2
    /\ dd_prev' = solution_set
    /\ solution_set' = remove_duplicates(solution_set)
    /\ dd_calls' = dd_calls + 1
    /\ UNCHANGED dd_input
    /\ UNCHANGED <<solverVars, gridVars, validVars, unitVars>>

SpecDedup == DedupInit /\ [][RemoveDuplicates]_vars

----------------------------------------------------------------------------
(* Properties of the solver                                                *)

\* the grid of piece p stamped with its top-left cell at pos, if it fits
Stamp(pos, o) == place_piece_on_board(pos, [current_orientation |-> o])

\* the grids a piece shape takes under 90 degree turns and reflection
Turns(o) ==
    LET r1 == rotate90(o, 1)
        r2 == rotate90(r1, 1)
        r3 == rotate90(r2, 1)
    IN  {o, r1, r2, r3}
Orientations(o) == Turns(o) \cup Turns(flipY(o))

RECURSIVE SumStamps(_, _)
SumStamps(layout, sol) ==
    IF sol = <<>> THEN layout
    ELSE SumStamps(add(layout, Stamp(sol[1].board_position, sol[1].orientation)),
                   Tail(sol))

\* sol places each catalogue piece once, in one of its orientations and on
\* the board, and with the initial layout the stamps cover every cell once
IsExactCover(sol, layout) ==
    /\ Len(sol) = Len(create_piece_models)
    /\ \A i \in 1..Len(sol) :
          /\ sol[i].name = create_piece_models[i].name
          /\ sol[i].orientation \in Orientations(create_piece_models[i].initial_orientation)
          /\ ~IsPanic(Stamp(sol[i].board_position, sol[i].orientation))
    /\ SumStamps(layout, sol).data = [i \in 1..49 |-> 1]

\* C1: every solution in the solution set is an exact cover of the initial
\* board.  (No reachable state of Spec holds a solution: is_piece_valid
\* accepts no placement that leaves an empty cell, so nothing is placed.)
SolutionsAreExactCovers ==
    \A i \in 1..Len(solution_set) :
        IsExactCover(solution_set[i], BoardModel(day, month))

PiecePosition(name, pos, o) == [name |-> name, board_position |-> pos, orientation |-> o]

\* a tiling of the board of 31 January
TilingJanuary31 ==
    << PiecePosition("2x3 No Hole", <<0, 1>>, Array2D(2, 3, <<1, 1, 1,
                                                             1, 1, 1>>)),
       PiecePosition("2x3 Middle Hole", <<2, 3>>, Array2D(2, 3, <<1, 0, 1,
                                                                 1, 1, 1>>)),
       PiecePosition("2x3 End Hole", <<0, 4>>, Array2D(3, 2, <<1, 1,
                                                              1, 1,
                                                              1, 0>>)),
       PiecePosition("2x4 Zig Zag", <<4, 2>>, Array2D(2, 4, <<1, 1, 1, 0,
                                                             0, 0, 1, 1>>)),
       PiecePosition("2x4 Tee.", <<2, 5>>, Array2D(4, 2, <<0, 1,
                                                          0, 1,
                                                          1, 1,
                                                          0, 1>>)),
       PiecePosition("2x4 L", <<3, 0>>, Array2D(4, 2, <<1, 0,
                                                       1, 0,
                                                       1, 0,
                                                       1, 1>>)),
       PiecePosition("3x3 Zig Zag", <<1, 0>>, Array2D(3, 3, <<1, 0, 0,
                                                             1, 1, 1,
                                                             0, 0, 1>>)),
       PiecePosition("3x3 L", <<3, 1>>, Array2D(3, 3, <<1, 0, 0,
                                                       1, 0, 0,
                                                       1, 1, 1>>)) >>

CandidateTilings == {TilingJanuary31}

\* C2: when find_solution_set has returned, every exact-cover tiling of the
\* initial board is in the solution set
AllTilingsRecorded ==
    pc = "done" =>
        \A t \in CandidateTilings :
            IsExactCover(t, BoardModel(day, month)) =>
                \E i \in 1..Len(solution_set) : solution_set[i] = t

\* C3: solving for day 31, month 1 ends with a non-empty solution set
January31HasSolution ==
    (pc = "done" /\ day = 31 /\ month = 1) => Len(solution_set) > 0

\* C4: for every day and month find_solution_set terminates, through the
\* branch taken when nothing was placed and the history is empty: it never
\* panics, it has a next step wherever it has not returned, it takes at most
\* MaxSolverSteps steps, and it returns from a pass that placed nothing with
\* an empty history
SolverTerminates ==
    /\ pc \in {"loop", "scan", "try", "check", "done"}
    /\ steps <= MaxSolverSteps
    /\ pc = "done" => (~has_broken_out /\ solver_history = <<>>)

\* C4 witness: the search-exhausted exit has been taken
SearchExhausted ==
    pc = "done" /\ ~has_broken_out /\ solver_history = <<>> /\ day = 17 /\ month = 8

\* C5: the solver never calls next_board_position on a complete board.  (No
\* reachable state of Spec has a complete board, so the pass that follows a
\* completing placement is never run.)
NoEmptyPositionPanicFree == pc # "panic"

----------------------------------------------------------------------------
(* Properties of remove_duplicates                                         *)

StrictlySorted(list) ==
    \A i \in 1..(Len(list) - 1) : SolutionLess(list[i], list[i + 1])

Elements(list) == {list[i] : i \in 1..Len(list)}

\* C6: after remove_duplicates the list is sorted without equal solutions,
\* holds exactly the distinct solutions it held before, and a second call
\* changes nothing
RemoveDuplicatesSortsAndCollapses ==
    dd_calls >= 1 =>
        /\ StrictlySorted(solution_set)
        /\ Elements(solution_set) = Elements(dd_input)
        /\ (dd_calls = 2 => solution_set = dd_prev)

\* C6 witness: two equal solutions that were not adjacent have collapsed
NonAdjacentDuplicatesCollapsed ==
    /\ dd_calls = 1
    /\ Len(dd_input) = 3
    /\ dd_input[1] = dd_input[3]
    /\ dd_input[2] # dd_input[1]
    /\ Len(solution_set) = 2

----------------------------------------------------------------------------
(* Properties of is_piece_valid                                            *)

Overhangs(pos, o) == pos[1] + o.rows > 7 \/ pos[2] + o.cols > 7

\* some solid cell of the piece lands on a cell of the layout that is 1
StampOverlaps(layout, pos, o) ==
    \E r \in 0..(o.rows - 1), c \in 0..(o.cols - 1) :
        /\ get(o, r, c) = 1
        /\ get(layout, pos[1] + r, pos[2] + c) = 1

\* C7: is_piece_valid returns false, without panicking, whenever the bounding
\* box of the piece at the position crosses the bottom or the right edge
OverhangIsRejected ==
    (v_result # "none" /\ Overhangs(v_pos, v_piece.current_orientation))
        => v_result = "false"

\* C7 witness: a piece crossing only the right edge, whose translation
\* offset passes the first check, was rejected
RightOverhangRejected ==
    /\ v_result = "false"
    /\ v_pos[2] + v_piece.current_orientation.cols > 7
    /\ v_pos[1] + v_piece.current_orientation.rows <= 7
    /\ v_piece.translation_count <= v_pos[2]

\* C8: for a piece that fits on the board, is_piece_valid returns false
\* whenever a solid cell lands on a cell that is 1, which is when the sum of
\* the layout and the stamped piece holds a 2
OverlapIsRejected ==
    (v_result # "none" /\ ~Overhangs(v_pos, v_piece.current_orientation)) =>
        LET o == v_piece.current_orientation
            sum == add(v_layout, place_piece_on_board(v_pos, v_piece))
        IN  /\ StampOverlaps(v_layout, v_pos, o) <=> Contains(sum, 2)
            /\ StampOverlaps(v_layout, v_pos, o) => v_result = "false"

\* C8 witness: an overlapping piece that leaves no empty cell was rejected
OverlapOnFullBoardRejected ==
    /\ v_result = "false"
    /\ ~Overhangs(v_pos, v_piece.current_orientation)
    /\ v_piece.translation_count <= v_pos[2]
    /\ StampOverlaps(v_layout, v_pos, v_piece.current_orientation)
    /\ ~Contains(add(v_layout, place_piece_on_board(v_pos, v_piece)), 0)

----------------------------------------------------------------------------
(* Properties of rotate90                                                  *)

\* C9: rotate90(k) gives the grid and shape of rotate90(k + 4) and of
\* rotate90(k mod 4), and never takes the "Something went wrong" branch
RotatePeriodFour ==
    rot_n = 1 =>
        /\ grid = rotate90(grid0, rot_k + 4)
        /\ grid = rotate90(grid0, rot_k % 4)
        /\ grid # RotatePanic

\* C9 witness: a negative k has turned a grid that is not square
NegativeTurnDone ==
    /\ rot_n = 1 /\ rot_k = -3
    /\ ~IsPanic(grid)
    /\ grid.rows # grid0.rows

\* C10: rotate90(k) applied four times completes without failure and gives
\* back the original grid and shape
FourTurnsAreIdentity ==
    /\ ~IsPanic(grid)
    /\ rot_n = 4 => grid = grid0

----------------------------------------------------------------------------
(* get_calendar_position called once: c_args is <<calendar_entry,          *)
(* start_row, end_col, divisor>> and c_pos the Option of the result        *)

CalendarInit ==
    /\ SolverIdle /\ solution_set = <<>> /\ GridIdle /\ ValidIdle /\ DedupIdle
    /\ ArrayIdle /\ BoardIdle /\ PieceIdle /\ HistoryIdle
    /\ \E e \in 1..MaxEntry, start_row \in 0..MaxStartRow, d \in 1..MaxDivisor :
          c_args = <<e, start_row, d - 1, d>>
    /\ c_pos = <<>>

CalendarPosition ==
    /\ c_pos = <<>>
    /\ c_pos' = << get_calendar_position(c_args[1], c_args[2], c_args[3], c_args[4]) >>
    /\ UNCHANGED c_args
    /\ UNCHANGED <<solverVars, solution_set, gridVars, validVars, dedupVars,
                   arrayVars, boardVars, pieceVars,
                   historyVars>>

SpecCalendar == CalendarInit /\ [][CalendarPosition]_vars

----------------------------------------------------------------------------
(* is_board_complete and next_board_position called on a layout: b_layout  *)
(* is a test layout with at most one cell overwritten, b_out the results   *)

\* the 7 x 7 layout whose first k cells in row-major order are 1
PrefixLayout(k) == Array2D(7, 7, [i \in 1..49 |-> IF i <= k THEN 1 ELSE 0])

BoardInit ==
    /\ SolverIdle /\ solution_set = <<>> /\ GridIdle /\ ValidIdle /\ DedupIdle
    /\ ArrayIdle /\ CalendarIdle /\ PieceIdle /\ HistoryIdle
    /\ b_layout \in TestLayouts \cup {PrefixLayout(k) : k \in 0..49}
    /\ b_sets = 0
    /\ b_out = [probed |-> FALSE, complete |-> FALSE, position |-> <<0, 0>>]

\* board_layout.set((row, col), value)
SetCell ==
    /\ b_sets = 0 /\ ~b_out.probed
    /\ \E pos \in Positions, value \in {0, 1} :
          b_layout' = set(b_layout, pos[1], pos[2], value)
    /\ b_sets' = b_sets + 1
    /\ UNCHANGED b_out
    /\ UNCHANGED <<solverVars, solution_set, gridVars, validVars, dedupVars,
                   arrayVars, calendarVars, pieceVars,
                   historyVars>>

\* is_board_complete(&board_layout) and next_board_position(board_layout)
Probe ==
    /\ ~b_out.probed
    /\ b_out' = [probed |-> TRUE,
                 complete |-> is_board_complete(b_layout),
                 position |-> next_board_position(b_layout)]
    /\ UNCHANGED <<b_layout, b_sets>>
    /\ UNCHANGED <<solverVars, solution_set, gridVars, validVars, dedupVars,
                   arrayVars, calendarVars, pieceVars,
                   historyVars>>

SpecBoard == BoardInit /\ [][SetCell \/ Probe]_vars

----------------------------------------------------------------------------
(* A PieceModel under calls of its operations.  While p_pure holds the     *)
(* piece is a new one that was given p_n change_orientation calls and      *)
(* nothing else; p_last is the operation called last.                      *)

PieceInit ==
    /\ SolverIdle /\ solution_set = <<>> /\ GridIdle /\ ValidIdle /\ DedupIdle
    /\ ArrayIdle /\ CalendarIdle /\ BoardIdle /\ HistoryIdle
    /\ p_piece \in {create_piece_models[i] : i \in 1..8}
    /\ p_n = 0
    /\ p_pure = TRUE
    /\ p_last = "new"
    /\ p_seen = <<p_piece.current_orientation>>

\* piece.change_orientation(), a private method: called on its own only on
\* a new piece, as tests::change_piece_orientation_* do
ChangeOrientation ==
    /\ p_pure /\ p_n < MaxOrientationCalls
    /\ p_piece' = change_orientation(p_piece)
    /\ p_n' = p_n + 1
    /\ p_seen' = IF p_piece'.orientation_exhausted THEN p_seen
                 ELSE Append(p_seen, p_piece'.current_orientation)
    /\ p_last' = "change_orientation"
    /\ UNCHANGED p_pure
    /\ UNCHANGED <<solverVars, solution_set, gridVars, validVars, dedupVars,
                   arrayVars, calendarVars, boardVars,
                   historyVars>>

\* piece.next_unique_orientation()
NextUniqueOrientation ==
    /\ ~next_unique_orientation_panics(p_piece)
    /\ p_piece' = next_unique_orientation(p_piece)
    /\ p_n' = 0 /\ p_pure' = FALSE /\ p_seen' = <<>>
    /\ p_last' = "next_unique_orientation"
    /\ UNCHANGED <<solverVars, solution_set, gridVars, validVars, dedupVars,
                   arrayVars, calendarVars, boardVars,
                   historyVars>>

\* piece.set_used(is_used)
SetUsed ==
    /\ \E used \in BOOLEAN : p_piece' = set_used(p_piece, used)
    /\ p_n' = 0 /\ p_pure' = FALSE /\ p_seen' = <<>>
    /\ p_last' = "set_used"
    /\ UNCHANGED <<solverVars, solution_set, gridVars, validVars, dedupVars,
                   arrayVars, calendarVars, boardVars,
                   historyVars>>

\* piece.reset()
Reset ==
    /\ p_piece' = reset(p_piece)
    /\ p_n' = 0 /\ p_pure' = FALSE /\ p_seen' = <<>>
    /\ p_last' = "reset"
    /\ UNCHANGED <<solverVars, solution_set, gridVars, validVars, dedupVars,
                   arrayVars, calendarVars, boardVars,
                   historyVars>>

NextPiece == ChangeOrientation \/ NextUniqueOrientation \/ SetUsed \/ Reset

SpecPiece == PieceInit /\ [][NextPiece]_vars

----------------------------------------------------------------------------
(* Properties of flip, transpose, get and add                              *)

\* C11: flip(Axes::X) reverses the order of the rows of a grid of any shape:
\* row i of the result is row rows - 1 - i of the original, the contents of
\* the rows are untouched and the shape is unchanged
FlipVerticalReversesRows ==
    a_ops = <<"flipX">> =>
        /\ ~IsPanic(grid)
        /\ grid.rows = grid0.rows /\ grid.cols = grid0.cols
        /\ \A r \in 0..(grid0.rows - 1), c \in 0..(grid0.cols - 1) :
              get(grid, r, c) = get(grid0, grid0.rows - 1 - r, c)

\* a_ops is one or more calls of the operation op and nothing else
OnlyCalls(op) == a_ops # <<>> /\ \A i \in 1..Len(a_ops) : a_ops[i] = op

\* C12: flip(Axes::Y) applied twice and flip(Axes::X) applied twice give
\* back the data and the shape of a grid of any shape, and no call fails
DoubleFlipIsIdentity ==
    /\ (OnlyCalls("flipY") \/ OnlyCalls("flipX")) => ~IsPanic(grid)
    /\ (a_ops = <<"flipY", "flipY">> \/ a_ops = <<"flipX", "flipX">>) =>
          grid = grid0

\* the visited flags of transpose when its loops have ended
TransposeVisited(g) ==
    TransposeLoop([data |-> g.data,
                   visited |-> [i \in 1..(g.rows * g.cols) |-> FALSE]],
                  g.cols, g.rows * g.cols, 0).visited

\* C13: transpose of a rows x cols grid gives a cols x rows grid whose cell
\* (c, r) is the cell (r, c) of the original, and the cycle-following loops
\* end with every index visited
TransposeIsTransposition ==
    a_ops = <<"transpose">> =>
        /\ grid.rows = grid0.cols /\ grid.cols = grid0.rows
        /\ Len(grid.data) = grid0.rows * grid0.cols
        /\ \A r \in 0..(grid0.rows - 1), c \in 0..(grid0.cols - 1) :
              get(grid, c, r) = get(grid0, r, c)
        /\ \A i \in 1..(grid0.rows * grid0.cols) : TransposeVisited(grid0)[i]

\* C13 witness: a grid of one row and several columns became one column
RowVectorTransposed ==
    /\ a_ops = <<"transpose">>
    /\ grid0.rows = 1 /\ grid0.cols > 2
    /\ grid.rows = grid0.cols /\ grid.cols = 1

\* C14: transpose applied twice gives back the data and the shape
DoubleTransposeIsIdentity ==
    a_ops = <<"transpose", "transpose">> => grid = grid0

\* C14 witness: a grid that is not square was transposed twice
RectangleTransposedTwice ==
    /\ a_ops = <<"transpose", "transpose">>
    /\ grid0.rows > 1 /\ grid0.cols > grid0.rows
    /\ ~IsPanic(grid)

\* C15: get(row, col) fails exactly when row >= rows or col >= cols, so a
\* column past the end of a row that is not the last one fails too
GetFailsExactlyOutOfBounds ==
    a_out.op = "get" =>
        (a_out.panicked <=> (a_arg[1] >= grid.rows \/ a_arg[2] >= grid.cols))

\* C16: the sum of two grids of different shapes is the shape-mismatch panic
\* and no grid; the sum of two grids of the same shape has that shape and
\* every cell is the sum of the two cells at its place
AddChecksShapes ==
    a_out.op = "add" =>
        IF grid.rows # a_arg.rows \/ grid.cols # a_arg.cols
        THEN a_out.sum = ShapePanic
        ELSE /\ a_out.sum.rows = grid.rows /\ a_out.sum.cols = grid.cols
             /\ Len(a_out.sum.data) = grid.rows * grid.cols
             /\ \A r \in 0..(grid.rows - 1), c \in 0..(grid.cols - 1) :
                   get(a_out.sum, r, c) = get(grid, r, c) + get(a_arg, r, c)

\* C16 witness: two grids of as many cells but of different shapes were not
\* added
ReshapedGridsNotAdded ==
    /\ a_out.op = "add"
    /\ Len(grid.data) = Len(a_arg.data)
    /\ grid.rows # a_arg.rows
    /\ a_out.sum = ShapePanic

----------------------------------------------------------------------------
(* Properties of the calendar position, the board probes and the piece     *)

\* C17: for an entry e >= 1 and a divisor d with end_col = d - 1,
\* get_calendar_position gives (start_row + (e - 1) div d, (e - 1) mod d);
\* a multiple of d lands on end_col of the row before, so (21, 2, 6, 7)
\* gives (4, 6) and (5, 0, 5, 6) gives (0, 4)
CalendarPositionIsRowMajor ==
    c_pos # <<>> =>
        LET e == c_args[1]
            start_row == c_args[2]
            end_col == c_args[3]
            d == c_args[4]
        IN  /\ c_pos[1] = <<start_row + (e - 1) \div d, (e - 1) % d>>
            /\ e % d = 0 => c_pos[1] = <<start_row + (e \div d) - 1, end_col>>
            /\ c_args = <<21, 2, 6, 7>> => c_pos[1] = <<4, 6>>
            /\ c_args = <<5, 0, 5, 6>> => c_pos[1] = <<0, 4>>

\* C17 witness: the 21st day, a multiple of 7, was put at the end of row 4
DayTwentyOneWrapped ==
    /\ c_args = <<21, 2, 6, 7>>
    /\ c_pos = << <<4, 6>> >>

\* pos comes before q, or is q, in row-major order
RowMajorLeq(pos, q) == pos[1] < q[1] \/ (pos[1] = q[1] /\ pos[2] <= q[2])

\* the positions of the cells of the layout that are 0
ZeroCells(layout) == {pos \in Positions : get(layout, pos[1], pos[2]) = 0}

\* C18: is_board_complete is true exactly when no cell is 0; when it is false
\* next_board_position gives the first 0 cell in row-major order; when it
\* is true next_board_position panics
CompleteIffNoZeroAndFirstZeroFound ==
    b_out.probed =>
        /\ b_out.complete <=> ZeroCells(b_layout) = {}
        /\ ~b_out.complete =>
              /\ b_out.position \in ZeroCells(b_layout)
              /\ \A q \in ZeroCells(b_layout) : RowMajorLeq(b_out.position, q)
        /\ b_out.complete => b_out.position = NoPosition

\* C18 witness: the first of several 0 cells was found past the first row
\* and column, after cells that are 1
FirstOfSeveralZerosFound ==
    /\ b_out.probed /\ ~b_out.complete
    /\ b_out.position[1] > 0 /\ b_out.position[2] > 0
    /\ Cardinality(ZeroCells(b_layout)) > 1

\* n calls of rotate90(1)
RECURSIVE QuarterTurns(_, _)
QuarterTurns(o, n) == IF n = 0 THEN o ELSE rotate90(QuarterTurns(o, n - 1), 1)

\* C19: on a new flippable piece with max_rotations = m the first m calls of
\* change_orientation rotate once each, call m + 1 flips and leaves
\* rotation_count 0 and has_flipped true, and orientation_exhausted is true
\* from call 2m + 2 on and not before; a piece that is not flippable is
\* exhausted from call m + 1 on and never flips
OrientationSchedule ==
    p_pure =>
        LET m == p_piece.max_rotations
            o == p_piece.initial_orientation
        IN  /\ p_n <= m =>
                  /\ p_piece.rotation_count = p_n
                  /\ ~p_piece.has_flipped
                  /\ p_piece.current_orientation = QuarterTurns(o, p_n)
            /\ p_piece.is_flippable =>
                  /\ p_n = m + 1 =>
                        /\ p_piece.rotation_count = 0
                        /\ p_piece.has_flipped
                        /\ p_piece.current_orientation = flipY(QuarterTurns(o, m))
                  /\ p_piece.has_flipped <=> p_n >= m + 1
                  /\ p_piece.orientation_exhausted <=> p_n >= 2 * m + 2
            /\ ~p_piece.is_flippable =>
                  /\ ~p_piece.has_flipped
                  /\ p_piece.orientation_exhausted <=> p_n >= m + 1

\* C19 witness: the piece of tests::change_piece_orientation_until_exhausted
\* after its 8th call
EndHoleExhaustedAtEight ==
    /\ p_pure /\ p_n = 8
    /\ p_piece.name = "2x3 End Hole"
    /\ p_piece.rotation_count = 3
    /\ p_piece.has_flipped
    /\ p_piece.orientation_exhausted

\* C20: after reset, whatever was called before, current_orientation is
\* initial_orientation, both counts are 0 and has_flipped,
\* orientation_exhausted, translation_exhausted and is_used are false
ResetClearsEverything ==
    p_last = "reset" =>
        /\ p_piece.current_orientation = p_piece.initial_orientation
        /\ p_piece.rotation_count = 0
        /\ p_piece.translation_count = 0
        /\ ~p_piece.has_flipped
        /\ ~p_piece.orientation_exhausted
        /\ ~p_piece.translation_exhausted
        /\ ~p_piece.is_used

----------------------------------------------------------------------------
(* Properties of the translation and orientation enumeration of a piece    *)

\* translation_count is a column of row 0 at or before the first 1 of row 0
TranslationInBounds(p) ==
    LET o == p.current_orientation
    IN  /\ p.translation_count < o.cols
        /\ \A c \in 0..(p.translation_count - 1) : get(o, 0, c) = 0
        /\ \E c \in p.translation_count..(o.cols - 1) : get(o, 0, c) = 1

\* C21: translate adds one to translation_count while the cell of row 0 at
\* column translation_count is 0, and once that cell is 1 it sets
\* translation_exhausted and leaves translation_count; translation_count is
\* never past the first 1 of row 0, so get(0, translation_count) reads
\* inside row 0 in every state of every catalogue piece
TranslateStopsAtFirstOne ==
    [][ /\ TranslationInBounds(p_piece)
        /\ TranslationInBounds(p_piece')
        /\ (p_last' = "next_unique_orientation" /\ ~p_piece.translation_exhausted) =>
              LET cell == get(p_piece.current_orientation, 0,
                              p_piece.translation_count)
              IN  /\ p_piece'.current_orientation = p_piece.current_orientation
                  /\ cell = 0 => /\ p_piece'.translation_count =
                                       p_piece.translation_count + 1
                                 /\ ~p_piece'.translation_exhausted
                  /\ cell = 1 => /\ p_piece'.translation_count =
                                       p_piece.translation_count
                                 /\ p_piece'.translation_exhausted ]_vars

\* C21 witness: the 2x4 L was translated to its last column and stopped
TranslatedToLastColumn ==
    /\ p_last = "next_unique_orientation"
    /\ p_piece.name = "2x4 L"
    /\ p_piece.rotation_count = 0 /\ ~p_piece.has_flipped
    /\ p_piece.translation_count = 3
    /\ p_piece.translation_exhausted

----------------------------------------------------------------------------
(* Properties of the hole check of is_piece_valid                          *)

----------------------------------------------------------------------------
(* Properties of the board and of the orientations the search is given     *)

\* C27: in every state of find_solution_set every cell of board_layout is 0
\* or 1: a 2 of the sum computed by is_piece_valid is never committed
BoardCellsAreZeroOrOne ==
    \A pos \in Positions : get(board_layout, pos[1], pos[2]) \in {0, 1}

\* C27 witness: the first attempt of the search, piece 0 at the first empty
\* cell, overlapped a marked cell; it was rejected and the board was kept
OverlappingAttemptNotCommitted ==
    /\ pc = "try" /\ steps = 3 /\ index = 0
    /\ pieces[1].translation_exhausted
    /\ StampOverlaps(board_layout, board_position,
                     create_piece_models[1].current_orientation)
    /\ ~Overhangs(board_position, create_piece_models[1].current_orientation)
    /\ board_layout = BoardModel(day, month)

\* the original of C28: rotation_count lies in 0..max_rotations - 1
RotationCountBelowMax ==
    p_piece.rotation_count \in 0..(p_piece.max_rotations - 1)

\* how many flip states the enumeration of the piece goes through
FlipStates(p) == IF p.is_flippable THEN 2 ELSE 1

\* C28, amended: rotation_count lies in 0..max_rotations, and a piece with
\* max_rotations = m has been presented in m + 1 rotations per flip state
\* when it is exhausted
RotationCountUpToMax ==
    /\ p_piece.rotation_count \in 0..p_piece.max_rotations
    /\ (p_pure /\ p_piece.orientation_exhausted) =>
          /\ p_piece.rotation_count = p_piece.max_rotations
          /\ Len(p_seen) = (p_piece.max_rotations + 1) * FlipStates(p_piece)

\* C28 witness: the 2x3 Middle Hole, of max_rotations 3, is exhausted after
\* 4 rotations were presented, the last with rotation_count 3
MiddleHoleExhaustedAtCountThree ==
    /\ p_pure /\ p_piece.name = "2x3 Middle Hole"
    /\ p_piece.orientation_exhausted
    /\ p_piece.rotation_count = 3
    /\ Len(p_seen) = 4

\* C29: the grids current_orientation takes from the initial state until
\* orientation_exhausted, one per change_orientation step, are pairwise
\* distinct
OrientationsPresentedOnce ==
    p_pure =>
        \A i, j \in 1..Len(p_seen) : i # j => p_seen[i] # p_seen[j]

\* the grid turned by 90 degrees, and mirrored, cell by cell
TurnedGrid(o) ==
    Array2D(o.cols, o.rows,
            [i \in 1..(o.rows * o.cols) |->
                LET r == (i - 1) \div o.rows
                    c == (i - 1) % o.rows
                IN  get(o, c, o.cols - 1 - r)])
MirroredGrid(o) ==
    Array2D(o.rows, o.cols,
            [i \in 1..(o.rows * o.cols) |->
                LET r == (i - 1) \div o.cols
                    c == (i - 1) % o.cols
                IN  get(o, r, o.cols - 1 - c)])
AllTurns(o) ==
    {o, TurnedGrid(o), TurnedGrid(TurnedGrid(o)),
     TurnedGrid(TurnedGrid(TurnedGrid(o)))}

\* C30: every grid obtainable from the initial orientation by 90 degree
\* rotations and mirror reflection has been taken by current_orientation
\* when orientation_exhausted becomes true
AllOrientationsPresented ==
    (p_pure /\ p_piece.orientation_exhausted) =>
        \A o \in AllTurns(p_piece.initial_orientation)
                 \cup AllTurns(MirroredGrid(p_piece.initial_orientation)) :
            \E i \in 1..Len(p_seen) : p_seen[i] = o

\* C30 witness: the 2x4 L, which has 8 orientations, is exhausted
EightOrientationsOfLPresented ==
    /\ p_pure /\ p_piece.name = "2x4 L"
    /\ p_piece.orientation_exhausted
    /\ Cardinality(AllTurns(p_piece.initial_orientation)
                   \cup AllTurns(MirroredGrid(p_piece.initial_orientation))) = 8
    /\ Cardinality({p_seen[i] : i \in 1..Len(p_seen)}) = 8

----------------------------------------------------------------------------
(* Properties of the history of the search                                 *)

\* C22: every piece whose index is on solver_history is marked used, and no
\* index is on solver_history twice
HistoryPiecesAreUsed ==
    /\ \A i \in 1..Len(solver_history) : is_used(pieces[solver_history[i] + 1])
    /\ \A i, j \in 1..Len(solver_history) :
          i # j => solver_history[i] # solver_history[j]

\* C24: the checkpoints and the history entries are as many, at most 8
CheckpointsMatchHistory ==
    /\ Len(recursive_history) = Len(solver_history)
    /\ Len(solver_history) <= 8

\* some piece has been placed and is on the history
PieceWasPlaced == solver_history # <<>>

----------------------------------------------------------------------------
(* Properties of next_unique_orientation                                   *)

\* the calls of change_orientation left before the piece is exhausted
OrientationStepsLeft(p) ==
    IF p.orientation_exhausted THEN 0
    ELSE (IF p.is_flippable /\ ~p.has_flipped THEN p.max_rotations + 1 ELSE 0)
         + (p.max_rotations - p.rotation_count) + 1

\* the calls of translate left, at most, before the translation is exhausted
TranslationStepsLeft(p) ==
    IF p.translation_exhausted THEN 0
    ELSE p.current_orientation.cols - p.translation_count + 1

\* a measure of the calls of next_unique_orientation left: a turn or a flip
\* keeps the longer side of the grid, which bounds the translation steps
CallsLeft(p) ==
    LET o == p.current_orientation
        side == IF o.rows > o.cols THEN o.rows ELSE o.cols
    IN  OrientationStepsLeft(p) * (side + 2) + TranslationStepsLeft(p)

\* C31: next_unique_orientation changes rotation or flip only when
\* translation_exhausted is set, and then leaves translation_count 0 and
\* translation_exhausted false; otherwise it makes one translate step and
\* keeps current_orientation, rotation_count and has_flipped.  A flip comes
\* only at rotation_count = max_rotations.  Every call on a piece that is
\* not exhausted returns and lowers CallsLeft, which is never negative, so
\* repeated calls reach orientation_exhausted in finitely many steps
NextUniqueOrientationOrder ==
    [][ /\ ~next_unique_orientation_panics(p_piece)
        /\ ~next_unique_orientation_panics(p_piece')
        /\ p_last' = "next_unique_orientation" =>
          /\ p_piece.translation_exhausted =>
                /\ p_piece'.translation_count = 0
                /\ ~p_piece'.translation_exhausted
          /\ ~p_piece.translation_exhausted =>
                /\ p_piece'.current_orientation = p_piece.current_orientation
                /\ p_piece'.rotation_count = p_piece.rotation_count
                /\ p_piece'.has_flipped = p_piece.has_flipped
                /\ p_piece'.orientation_exhausted = p_piece.orientation_exhausted
                /\ \/ p_piece'.translation_count = p_piece.translation_count + 1
                   \/ /\ p_piece'.translation_count = p_piece.translation_count
                      /\ p_piece'.translation_exhausted
          /\ (p_piece'.has_flipped /\ ~p_piece.has_flipped) =>
                /\ p_piece.rotation_count = p_piece.max_rotations
                /\ p_piece.translation_exhausted
          /\ CallsLeft(p_piece') >= 0
          /\ ~p_piece.orientation_exhausted =>
                CallsLeft(p_piece') < CallsLeft(p_piece) ]_vars

\* C31 witness: a call of next_unique_orientation left a flippable piece,
\* which has flipped, with orientation_exhausted set
ExhaustedByNextUniqueOrientation ==
    /\ p_last = "next_unique_orientation"
    /\ p_piece.name = "2x3 End Hole"
    /\ p_piece.has_flipped
    /\ p_piece.orientation_exhausted
    /\ p_piece.translation_count = 0 /\ ~p_piece.translation_exhausted

----------------------------------------------------------------------------
\* the number of elements of the grid equal to value
CountOf(g, value) == Cardinality({i \in 1..Len(g.data) : g.data[i] = value})

RECURSIVE SolidCellsUpTo(_)
\* the solid cells of the first n catalogue pieces together
SolidCellsUpTo(n) ==
    IF n = 0 THEN 0
    ELSE SolidCellsUpTo(n - 1)
         + CountOf(create_piece_models[n].initial_orientation, 1)

\* C33: for every day and month, the board made by BoardModel::new differs
\* from the empty calendar in exactly two distinct cells within the 7 x 7
\* bounds, the day cell and the month cell, both 0 in the empty calendar
\* and 1 in the board; every cell of the board is 0 or 1; and the board has
\* exactly 41 cells of 0, as many as the 8 catalogue pieces have solid cells
InitialBoardHasTwoMarkers ==
    steps = 0 =>
        LET dpos == get_calendar_position(day, 2, 6, 7)
            mpos == get_calendar_position(month, 0, 5, 6)
        IN  /\ ~IsPanic(board_layout)
            /\ board_layout.rows = 7 /\ board_layout.cols = 7
            /\ Len(board_layout.data) = 49
            /\ dpos \in Positions /\ mpos \in Positions
            /\ dpos # mpos
            /\ get(create_empty_calendar, dpos[1], dpos[2]) = 0
            /\ get(create_empty_calendar, mpos[1], mpos[2]) = 0
            /\ {pos \in Positions :
                    get(board_layout, pos[1], pos[2])
                        # get(create_empty_calendar, pos[1], pos[2])}
               = {dpos, mpos}
            /\ get(board_layout, dpos[1], dpos[2]) = 1
            /\ get(board_layout, mpos[1], mpos[2]) = 1
            /\ \A i \in 1..49 : board_layout.data[i] \in {0, 1}
            /\ CountOf(board_layout, 0) = 41
            /\ CountOf(board_layout, 0) = SolidCellsUpTo(8)

\* C33 witness: the board of 31 December, with the day marked at (6, 2) and
\* the month, a multiple of 6, marked at the last month cell (1, 5)
DecemberThirtyFirstMarked ==
    /\ steps = 0 /\ day = 31 /\ month = 12
    /\ get(board_layout, 6, 2) = 1
    /\ get(board_layout, 1, 5) = 1
    /\ CountOf(board_layout, 0) = 41

----------------------------------------------------------------------------
\* C34: for k in 0..3 one call rotate90(k) completes and gives the grid and
\* shape of k calls rotate90(1); rotate90(-k) on the result gives back the
\* original; and rotate90(1) is the anti-clockwise quarter turn, the
\* cols x rows grid whose cell (i, j) is the original's cell (j, cols - 1 - i)
RotateByKIsKQuarterTurns ==
    (rot_n = 1 /\ rot_k \in 0..3) =>
        /\ ~IsPanic(grid)
        /\ grid = QuarterTurns(grid0, rot_k)
        /\ rotate90(grid, 0 - rot_k) = grid0
        /\ rot_k = 1 => grid = TurnedGrid(grid0)

----------------------------------------------------------------------------
(* A RecursiveHistory under add_memento and get_memento.  h_board is the   *)
(* grid the mementos are made of, as BoardModel::generate_memento makes    *)
(* them of a clone of board_layout, and h_out the Option of the memento    *)
(* get_memento returned last.  h_log records every memento made, in order: *)
(* the grid it was made of and whether it has been returned; h_ret is the  *)
(* h_log index of the memento returned last and h_before the history as it *)
(* was before the last add_memento.                                        *)

\* the grid of the tests of memento.rs
MementoTestGrid == Array2D(3, 3, <<1, 2, 3, 1, 2, 3, 1, 2, 3>>)

HistoryInit ==
    /\ SolverIdle /\ solution_set = <<>> /\ GridIdle /\ ValidIdle /\ DedupIdle
    /\ ArrayIdle /\ CalendarIdle /\ BoardIdle /\ PieceIdle
    /\ h_history = <<>>
    /\ h_board \in {MementoTestGrid, create_empty_calendar}
    /\ h_out = <<>> /\ h_log = <<>> /\ h_ret = 0 /\ h_before = <<>>
    /\ h_last = "new"

\* the h_log indices of the mementos not returned yet
LiveEntries(log) == {i \in 1..Len(log) : ~log[i].returned}

\* history.add_memento(board.generate_memento())
AddMemento ==
    /\ h_last # "panic"
    /\ Len(h_log) < MaxMementos
    /\ h_history' = add_memento(h_history, generate_memento(h_board))
    /\ h_log' = Append(h_log, [grid |-> h_board, returned |-> FALSE])
    /\ h_before' = h_history
    /\ h_last' = "add_memento"
    /\ UNCHANGED <<h_board, h_out, h_ret>>
    /\ UNCHANGED <<solverVars, solution_set, gridVars, validVars, dedupVars,
                   arrayVars, calendarVars, boardVars, pieceVars>>

\* the grid the mementos were made of is changed in place
MutateBoard ==
    /\ h_last # "panic"
    /\ h_board' = rotate90(h_board, 1)
    /\ h_last' = "mutate"
    /\ UNCHANGED <<h_history, h_out, h_log, h_ret, h_before>>
    /\ UNCHANGED <<solverVars, solution_set, gridVars, validVars, dedupVars,
                   arrayVars, calendarVars, boardVars, pieceVars>>

\* history.get_memento(); pop().unwrap() panics on an empty history.  The
\* log entry marked returned is the newest one not returned before.
GetMemento ==
    /\ h_last # "panic"
    /\ IF h_history = <<>>
       THEN /\ h_last' = "panic"
            /\ UNCHANGED <<h_history, h_out, h_log, h_ret>>
       ELSE LET popped == get_memento(h_history)
                live == LiveEntries(h_log)
                newest == IF live = {} THEN 0
                          ELSE CHOOSE i \in live : \A j \in live : j <= i
            IN  /\ h_history' = popped[1]
                /\ h_out' = <<popped[2]>>
                /\ h_ret' = newest
                /\ h_log' = [i \in 1..Len(h_log) |->
                                IF i = newest
                                THEN [h_log[i] EXCEPT !.returned = TRUE]
                                ELSE h_log[i]]
                /\ h_last' = IF h_last = "add_memento" THEN "add_get"
                             ELSE "get_memento"
    /\ UNCHANGED <<h_board, h_before>>
    /\ UNCHANGED <<solverVars, solution_set, gridVars, validVars, dedupVars,
                   arrayVars, calendarVars, boardVars, pieceVars>>

\* board.restore_from_memento(memento): get_state takes the memento by value
RestoreBoard ==
    /\ h_last # "panic"
    /\ h_out # <<>>
    /\ h_board' = restore_from_memento(h_out[1])
    /\ h_out' = <<>>
    /\ h_last' = "restore"
    /\ UNCHANGED <<h_history, h_log, h_ret, h_before>>
    /\ UNCHANGED <<solverVars, solution_set, gridVars, validVars, dedupVars,
                   arrayVars, calendarVars, boardVars, pieceVars>>

NextHistory == AddMemento \/ MutateBoard \/ GetMemento \/ RestoreBoard

SpecHistory == HistoryInit /\ [][NextHistory]_vars

\* the k-th of the mementos not returned yet, oldest first
LiveEntry(log, k) ==
    CHOOSE i \in LiveEntries(log) :
        Cardinality({j \in LiveEntries(log) : j <= i}) = k

\* C35: the history holds exactly the mementos made and not yet returned,
\* oldest first, so none is returned twice; get_memento returned the newest
\* of them, and its grid is the one it was made of whatever was done to the
\* board since, which is the grid a restore puts back; add_memento followed
\* at once by get_memento leaves the history as it was before the two calls
HistoryIsLifo ==
    /\ Len(h_history) = Cardinality(LiveEntries(h_log))
    /\ \A k \in 1..Len(h_history) :
          /\ k <= Cardinality(LiveEntries(h_log))
          /\ h_history[k] = Memento(h_log[LiveEntry(h_log, k)].grid)
    /\ h_last \in {"get_memento", "add_get"} =>
          /\ h_ret \in 1..Len(h_log)
          /\ h_log[h_ret].returned
          /\ \A j \in LiveEntries(h_log) : j < h_ret
          /\ h_out = <<Memento(h_log[h_ret].grid)>>
          /\ get_state(h_out[1]) = h_log[h_ret].grid
    /\ h_last = "restore" =>
          /\ h_ret \in 1..Len(h_log)
          /\ h_board = h_log[h_ret].grid
    /\ h_last = "add_get" => h_history = h_before

\* C35 witness: two mementos were made of different grids, the board was
\* changed again, and get_memento returned the second, with the grid it
\* was made of, leaving the first in the history
NewestMementoReturned ==
    /\ h_last = "get_memento"
    /\ Len(h_log) = 2 /\ h_ret = 2
    /\ h_log[1].grid # h_log[2].grid
    /\ h_board # h_log[2].grid
    /\ h_out = <<Memento(h_log[2].grid)>>
    /\ h_history = <<Memento(h_log[1].grid)>>

====
